---- MODULE Spec2Model ----
(***************************************************************************)
(* Model of the wait-for-completion calls of                               *)
(* googlecloudsdk/api_lib/container/backup_restore/util.py:                *)
(* WaitForBackupToFinish and WaitForRestoreToFinish.  Each call builds a   *)
(* retry.Retryer from its arguments, hands the poller's Poll/IsNotDone to  *)
(* Retryer.RetryOnResult and translates the way the retry loop ends.       *)
(* The retry loop itself (googlecloudsdk/core/util/retry.py) and the       *)
(* pollers (backup_restore/poller.py) are modelled from the design         *)
(* document, sections 4.1 to 4.3.  Times are in milliseconds.              *)
(***************************************************************************)
EXTENDS Integers, Sequences, FiniteSets, TLC

VARIABLES
  kind,        \* which wait function runs: "backup" or "restore"
  args,        \* the keyword arguments of the call
  client,      \* the client the poller is built on
  retryer,     \* the retry.Retryer built by the call
  pc,          \* position of the call
  elapsed,     \* wall-clock ms since the retry loop recorded its start time
  lastResult,  \* state of the most recent Poll Result ("none" before any)
  probeLog,    \* elapsed time at which each probe was issued
  probeDurs,   \* how long each probe took
  resultLog,   \* what each probe produced: a state, or the error it raised
  sleepLog,    \* the delays slept, in order
  callbacks,   \* number of status_update invocations
  cbFailed,    \* whether any of them raised
  completed,   \* number of "... completed" lines printed
  outcome,     \* how the call ended: [kind, value]
  engineExit,  \* how RetryOnResult was left: [kind, value]
  other,       \* the frame of a second wait call (its locals), when there is one
  active,      \* which of the two calls the variables above belong to
  callNo,      \* how many wait calls have been started one after the other
  lro          \* a Create...AndWaitForLRO call

ext == <<other, active, callNo, lro>>

vars == <<kind, args, client, retryer, pc, elapsed, lastResult, probeLog,
          probeDurs, resultLog, sleepLog, callbacks, cbFailed, completed,
          outcome, engineExit, ext>>

----------------------------------------------------------------------------
(* Bounds of the model *)
MaxWaitK == 5        \* max_wait_ms ranges over 1000 .. MaxWaitK * 1000
MaxCalls == 3        \* wait calls made one after the other
MaxLroPolls == 3     \* polls of one long-running operation
MaxProbeK == 1       \* a probe takes 0 .. MaxProbeK seconds

(* Program constants: the defaults of the keyword arguments *)
DefaultMultiplierTenths == 14   \* exponential_sleep_multiplier = 1.4
DefaultJitterMs == 1000
DefaultSleepMs == 2000

None == -1           \* Python's None for an optional integer

Min(a, b) == IF a <= b THEN a ELSE b

NonTerminalStates == {"PENDING", "IN_PROGRESS"}
TerminalStates == {"SUCCEEDED", "FAILED"}
PollStates == NonTerminalStates \cup TerminalStates
TransportErrors == {"HttpError", "NetworkError"}

ArgSets ==
  [ max_wait_ms : {k * 1000 : k \in 1..MaxWaitK},
    exponential_sleep_multiplier : {10, DefaultMultiplierTenths},
    jitter_ms : {0, DefaultJitterMs},
    wait_ceiling_ms : {1000, 3000},
    sleep_ms : {1000, DefaultSleepMs},
    client : {"supplied"} ]

----------------------------------------------------------------------------
(* poller.BackupPoller.IsNotDone / RestorePoller.IsNotDone *)
IsNotDone(result) == result \notin TerminalStates

(* Variants of should_retry_if: only SUCCEEDED counts as done; never done *)
ShouldRetryIf_OnlySucceeded(result) == result # "SUCCEEDED"

ShouldRetryIf_Always(result) == TRUE

(* should_retry_if handed to RetryOnResult *)
ShouldRetryIf(result) == IsNotDone(result)

(* Variants of the Retryer construction: the ceiling passed as max_wait_ms; *)
(* no status_update_func passed; the multiplier argument ignored.           *)
RetryerOf_CeilingAsMaxWait(a) ==
  [ max_retrials |-> None,
    max_wait_ms |-> a.wait_ceiling_ms,
    exponential_sleep_multiplier |-> a.exponential_sleep_multiplier,
    jitter_ms |-> a.jitter_ms,
    wait_ceiling_ms |-> a.wait_ceiling_ms,
    status_update_func |-> TRUE ]

RetryerOf_NoStatusUpdate(a) ==
  [ max_retrials |-> None,
    max_wait_ms |-> a.max_wait_ms,
    exponential_sleep_multiplier |-> a.exponential_sleep_multiplier,
    jitter_ms |-> a.jitter_ms,
    wait_ceiling_ms |-> a.wait_ceiling_ms,
    status_update_func |-> FALSE ]

RetryerOf_DefaultMultiplier(a) ==
  [ max_retrials |-> None,
    max_wait_ms |-> a.max_wait_ms,
    exponential_sleep_multiplier |-> DefaultMultiplierTenths,
    jitter_ms |-> a.jitter_ms,
    wait_ceiling_ms |-> a.wait_ceiling_ms,
    status_update_func |-> TRUE ]

(* Variants: max_wait_ms passed as the ceiling; a retry count passed *)
RetryerOf_MaxWaitAsCeiling(a) ==
  [ max_retrials |-> None,
    max_wait_ms |-> a.max_wait_ms,
    exponential_sleep_multiplier |-> a.exponential_sleep_multiplier,
    jitter_ms |-> a.jitter_ms,
    wait_ceiling_ms |-> a.max_wait_ms,
    status_update_func |-> TRUE ]

RetryerOf_OneRetrial(a) ==
  [ max_retrials |-> 1,
    max_wait_ms |-> a.max_wait_ms,
    exponential_sleep_multiplier |-> a.exponential_sleep_multiplier,
    jitter_ms |-> a.jitter_ms,
    wait_ceiling_ms |-> a.wait_ceiling_ms,
    status_update_func |-> TRUE ]

(* retry.Retryer(...) as the wait functions construct it *)
RetryerOf(a) ==
  [ max_retrials |-> None,
    max_wait_ms |-> a.max_wait_ms,
    exponential_sleep_multiplier |-> a.exponential_sleep_multiplier,
    jitter_ms |-> a.jitter_ms,
    wait_ceiling_ms |-> a.wait_ceiling_ms,
    status_update_func |-> TRUE ]

(* Keyword arguments with sleep_ms given as a literal sequence of delays; *)
(* the extra field marks the value as an iterable.                        *)
SeqArgSets ==
  [ max_wait_ms : {3000, 5000},
    exponential_sleep_multiplier : {DefaultMultiplierTenths},
    jitter_ms : {DefaultJitterMs},
    wait_ceiling_ms : {1000},
    sleep_ms : {<<1000>>, <<2000, 1000>>, <<1000, 2000>>},
    sleep_ms_is_iterable : {TRUE},
    client : {"None", "supplied"} ]

IsIterable(a) == "sleep_ms_is_iterable" \in DOMAIN a

(* Variant: only the first supplied delay passed on *)
SleepMsOf_FirstOnly(a) == <<a.sleep_ms[1]>>

(* Variant: the default sleep_ms passed instead of the argument *)
SleepMsOf_Default(a) == DefaultSleepMs

(* sleep_ms handed to RetryOnResult *)
SleepMsOf(a) == a.sleep_ms

(* client defaulting at the head of the wait functions: the backup call  *)
(* tests `client is None`, the restore call tests `not client`, which    *)
(* also replaces a client that is falsy.                                 *)
ClientOf(c) ==
  IF c = "None" \/ (kind = "restore" /\ c = "falsy") THEN "default" ELSE c

(* Backoff Scheduler: delay[0] = base_delay,                              *)
(* delay[n] = min(delay[n-1] * multiplier + random_jitter, ceiling)       *)
NextDelay(r, base, slept, j) ==
  IF Len(slept) = 0 THEN base
  ELSE Min((slept[Len(slept)] * r.exponential_sleep_multiplier) \div 10 + j,
           r.wait_ceiling_ms)

JitterChoices(r) == {0, r.jitter_ms}

(* Backoff Scheduler on a literal sequence: replay it, then hold at its  *)
(* last value.                                                           *)
SeqDelay(seq, slept) ==
  IF Len(slept) < Len(seq) THEN seq[Len(slept) + 1] ELSE seq[Len(seq)]

(* Variants of the translation: a bare except that turns every exception *)
(* into the timeout error; a FAILED result raised as an error.            *)
Translate_CatchAll(exit) ==
  IF exit.kind = "return" THEN [kind |-> "returned", value |-> exit.value]
  ELSE [kind |-> "WaitForCompletionTimeoutError", value |-> "timeout"]

Translate_RaiseOnFailed(exit) ==
  IF exit.kind = "return"
    THEN IF exit.value = "FAILED"
           THEN [kind |-> "Error", value |-> exit.value]
           ELSE [kind |-> "returned", value |-> exit.value]
  ELSE IF exit.kind = "WaitException"
    THEN [kind |-> "WaitForCompletionTimeoutError", value |-> "timeout"]
    ELSE [kind |-> exit.kind, value |-> exit.value]

(* Variant: no except clause, retry.WaitException reaches the caller *)
Translate_NoCatch(exit) ==
  IF exit.kind = "return" THEN [kind |-> "returned", value |-> exit.value]
  ELSE [kind |-> exit.kind, value |-> exit.value]

(* Variant: the restore call lacks the except clause of the backup call *)
Translate_RestoreNoCatch(exit) ==
  IF exit.kind = "return" THEN [kind |-> "returned", value |-> exit.value]
  ELSE IF exit.kind = "WaitException" /\ kind = "backup"
    THEN [kind |-> "WaitForCompletionTimeoutError", value |-> "timeout"]
    ELSE [kind |-> exit.kind, value |-> exit.value]

(* try/except around RetryOnResult: a returned result is printed and      *)
(* returned, retry.WaitException becomes WaitForCompletionTimeoutError,   *)
(* every other exception propagates.                                      *)
Translate(exit) ==
  IF exit.kind = "return" THEN [kind |-> "returned", value |-> exit.value]
  ELSE IF exit.kind = "WaitException"
    THEN [kind |-> "WaitForCompletionTimeoutError", value |-> "timeout"]
    ELSE [kind |-> exit.kind, value |-> exit.value]

(* Variant: the line is printed however RetryOnResult was left *)
CompletedLines_Always(exit) == 1

(* log.Print('Backup completed. ...') after RetryOnResult has returned *)
CompletedLines(exit) == IF exit.kind = "return" THEN 1 ELSE 0

NoOutcome == [kind |-> "none", value |-> "none"]

(* No second call, and no Create...AndWaitForLRO call *)
NoFrame == [pc |-> "absent"]
NoLro == [pc |-> "absent"]

----------------------------------------------------------------------------
Init ==
  /\ kind \in {"backup", "restore"}
  /\ args \in ArgSets
  /\ client = "unset"
  /\ retryer = RetryerOf(args)
  /\ pc = "start"
  /\ elapsed = 0
  /\ lastResult = "none"
  /\ probeLog = <<>>
  /\ probeDurs = <<>>
  /\ resultLog = <<>>
  /\ sleepLog = <<>>
  /\ callbacks = 0
  /\ cbFailed = FALSE
  /\ completed = 0
  /\ outcome = NoOutcome
  /\ engineExit = NoOutcome
  /\ other = NoFrame
  /\ active = 1
  /\ callNo = 1
  /\ lro = NoLro

(* Variant: the timeout is swallowed and the call keeps waiting *)
Finish_SwallowTimeout(exit) ==
  IF exit.kind = "WaitException"
    THEN UNCHANGED <<pc, engineExit, outcome, completed>>
    ELSE /\ pc' = "done"
         /\ engineExit' = exit
         /\ outcome' = Translate(exit)
         /\ completed' = completed + CompletedLines(exit)

(* The call ends: the retry loop exits and the wait function translates. *)
Finish(exit) ==
  /\ pc' = "done"
  /\ engineExit' = exit
  /\ outcome' = Translate(exit)
  /\ completed' = completed + CompletedLines(exit)

(* Head of the wait function: default the client, build retryer and      *)
(* poller, enter RetryOnResult (which records the start time).           *)
Start ==
  /\ pc = "start"
  /\ client' = ClientOf(args.client)
  /\ retryer' = RetryerOf(args)
  /\ elapsed' = 0
  /\ pc' = "probe"
  /\ UNCHANGED <<kind, args, lastResult, probeLog, probeDurs, resultLog,
                 sleepLog, callbacks, cbFailed, completed, outcome,
                 engineExit, ext>>

(* Step 2: invoke the prober; a transport failure ends the loop. *)
Probe ==
  /\ pc = "probe"
  /\ \E d \in {k * 1000 : k \in 0..MaxProbeK} :
     \E r \in PollStates \cup TransportErrors :
       /\ probeLog' = Append(probeLog, elapsed)
       /\ probeDurs' = Append(probeDurs, d)
       /\ resultLog' = Append(resultLog, r)
       /\ elapsed' = elapsed + d
       /\ IF r \in TransportErrors
            THEN /\ Finish([kind |-> "TransportError", value |-> r])
                 /\ UNCHANGED lastResult
            ELSE /\ lastResult' = r
                 /\ pc' = "callback"
                 /\ UNCHANGED <<outcome, completed, engineExit>>
  /\ UNCHANGED <<kind, args, client, retryer, sleepLog, callbacks, cbFailed,
                 ext>>

(* Variant: a failure of the callback leaves the loop as an exception *)
AfterStatusUpdate_Propagate(raised) ==
  IF raised
    THEN Finish([kind |-> "CallbackError", value |-> "status_update"])
    ELSE pc' = "decide" /\ UNCHANGED <<outcome, completed, engineExit>>

(* What the loop does once the callback has returned or raised: it goes *)
(* on to the retry decision either way.                                  *)
AfterStatusUpdate(raised) ==
  pc' = "decide" /\ UNCHANGED <<outcome, completed, engineExit>>

(* Step 3: status_update_func(result, state); a failure of the callback  *)
(* does not abort polling.                                                *)
StatusUpdate ==
  /\ pc = "callback"
  /\ IF retryer.status_update_func
       THEN \E raised \in BOOLEAN :
              /\ callbacks' = callbacks + 1
              /\ cbFailed' = (cbFailed \/ raised)
              /\ AfterStatusUpdate(raised)
       ELSE /\ AfterStatusUpdate(FALSE)
            /\ UNCHANGED <<callbacks, cbFailed>>
  /\ UNCHANGED <<kind, args, client, retryer, elapsed, lastResult, probeLog,
                 probeDurs, resultLog, sleepLog, ext>>

(* Steps 4 and 5: return the result if it need not be retried, raise the *)
(* timeout if elapsed >= max_wait, otherwise go on to sleep.             *)
Decide ==
  /\ pc = "decide"
  /\ IF ~ShouldRetryIf(lastResult)
       THEN Finish([kind |-> "return", value |-> lastResult])
       ELSE IF retryer.max_retrials # None
               /\ Len(sleepLog) >= retryer.max_retrials
         THEN Finish([kind |-> "MaxRetrialsException", value |-> lastResult])
         ELSE IF elapsed >= retryer.max_wait_ms
           THEN Finish([kind |-> "WaitException", value |-> lastResult])
           ELSE /\ pc' = "sleep"
                /\ UNCHANGED <<outcome, completed, engineExit>>
  /\ UNCHANGED <<kind, args, client, retryer, elapsed, lastResult, probeLog,
                 probeDurs, resultLog, sleepLog, callbacks, cbFailed, ext>>

(* Step 6: sleep for the next Backoff Scheduler delay, then probe again. *)
Sleep ==
  /\ pc = "sleep"
  /\ \E j \in JitterChoices(retryer) :
       LET d == IF IsIterable(args)
                  THEN SeqDelay(SleepMsOf(args), sleepLog)
                  ELSE NextDelay(retryer, SleepMsOf(args), sleepLog, j) IN
         /\ sleepLog' = Append(sleepLog, d)
         /\ elapsed' = elapsed + d
  /\ pc' = "probe"
  /\ UNCHANGED <<kind, args, client, retryer, lastResult, probeLog, probeDurs,
                 resultLog, callbacks, cbFailed, completed, outcome,
                 engineExit, ext>>

Next == Start \/ Probe \/ StatusUpdate \/ Decide \/ Sleep

Spec == Init /\ [][Next]_vars

(* A wait call whose sleep_ms is a literal sequence of delays *)
InitSeq ==
  /\ kind \in {"backup", "restore"}
  /\ args \in SeqArgSets
  /\ client = "unset"
  /\ retryer = RetryerOf(args)
  /\ pc = "start"
  /\ elapsed = 0
  /\ lastResult = "none"
  /\ probeLog = <<>>
  /\ probeDurs = <<>>
  /\ resultLog = <<>>
  /\ sleepLog = <<>>
  /\ callbacks = 0
  /\ cbFailed = FALSE
  /\ completed = 0
  /\ outcome = NoOutcome
  /\ engineExit = NoOutcome
  /\ other = NoFrame
  /\ active = 1
  /\ callNo = 1
  /\ lro = NoLro

SeqSpec == InitSeq /\ [][Next]_vars

(* A wait call that is scheduled: the thread running it keeps taking     *)
(* steps for as long as it has one to take.                              *)
LiveArgSets ==
  [ max_wait_ms : {1000, 3000},
    exponential_sleep_multiplier : {10, DefaultMultiplierTenths},
    jitter_ms : {0, DefaultJitterMs},
    wait_ceiling_ms : {3000},
    sleep_ms : {1000},
    client : {"supplied"} ]

InitLive ==
  /\ kind \in {"backup", "restore"}
  /\ args \in LiveArgSets
  /\ client = "unset"
  /\ retryer = RetryerOf(args)
  /\ pc = "start"
  /\ elapsed = 0
  /\ lastResult = "none"
  /\ probeLog = <<>>
  /\ probeDurs = <<>>
  /\ resultLog = <<>>
  /\ sleepLog = <<>>
  /\ callbacks = 0
  /\ cbFailed = FALSE
  /\ completed = 0
  /\ outcome = NoOutcome
  /\ engineExit = NoOutcome
  /\ other = NoFrame
  /\ active = 1
  /\ callNo = 1
  /\ lro = NoLro

FairSpec == InitLive /\ [][Next]_vars /\ WF_vars(Next)

----------------------------------------------------------------------------
(* The frame of a wait call: its arguments and local variables.  Every   *)
(* call of WaitForBackupToFinish / WaitForRestoreToFinish has its own.   *)
Frame ==
  [ kind |-> kind, args |-> args, client |-> client, retryer |-> retryer,
    pc |-> pc, elapsed |-> elapsed, lastResult |-> lastResult,
    probeLog |-> probeLog, probeDurs |-> probeDurs, resultLog |-> resultLog,
    sleepLog |-> sleepLog, callbacks |-> callbacks, cbFailed |-> cbFailed,
    completed |-> completed, outcome |-> outcome, engineExit |-> engineExit ]

(* The frame of a call that is about to run *)
FreshFrame(k, a) ==
  [ kind |-> k, args |-> a, client |-> "unset", retryer |-> RetryerOf(a),
    pc |-> "start", elapsed |-> 0, lastResult |-> "none",
    probeLog |-> <<>>, probeDurs |-> <<>>, resultLog |-> <<>>,
    sleepLog |-> <<>>, callbacks |-> 0, cbFailed |-> FALSE,
    completed |-> 0, outcome |-> NoOutcome, engineExit |-> NoOutcome ]

(* The variables are those of frame f *)
IsFrame(f) ==
  /\ kind = f.kind /\ args = f.args /\ client = f.client
  /\ retryer = f.retryer /\ pc = f.pc /\ elapsed = f.elapsed
  /\ lastResult = f.lastResult /\ probeLog = f.probeLog
  /\ probeDurs = f.probeDurs /\ resultLog = f.resultLog
  /\ sleepLog = f.sleepLog /\ callbacks = f.callbacks
  /\ cbFailed = f.cbFailed /\ completed = f.completed
  /\ outcome = f.outcome /\ engineExit = f.engineExit

(* Variant: the retryer is one object shared by all calls, not a local *)
Resume_SharedRetryer(f) ==
  /\ kind' = f.kind /\ args' = f.args /\ client' = f.client
  /\ retryer' = retryer /\ pc' = f.pc /\ elapsed' = f.elapsed
  /\ lastResult' = f.lastResult /\ probeLog' = f.probeLog
  /\ probeDurs' = f.probeDurs /\ resultLog' = f.resultLog
  /\ sleepLog' = f.sleepLog /\ callbacks' = f.callbacks
  /\ cbFailed' = f.cbFailed /\ completed' = f.completed
  /\ outcome' = f.outcome /\ engineExit' = f.engineExit

(* Execution goes on in frame f *)
Resume(f) ==
  /\ kind' = f.kind /\ args' = f.args /\ client' = f.client
  /\ retryer' = f.retryer /\ pc' = f.pc /\ elapsed' = f.elapsed
  /\ lastResult' = f.lastResult /\ probeLog' = f.probeLog
  /\ probeDurs' = f.probeDurs /\ resultLog' = f.resultLog
  /\ sleepLog' = f.sleepLog /\ callbacks' = f.callbacks
  /\ cbFailed' = f.cbFailed /\ completed' = f.completed
  /\ outcome' = f.outcome /\ engineExit' = f.engineExit

----------------------------------------------------------------------------
(* Wait calls made one after the other on the same resource.  A terminal *)
(* state is final: once a call has seen one, every later probe returns   *)
(* it again.                                                             *)
RepeatArgSets ==
  [ max_wait_ms : {1000, 2000},
    exponential_sleep_multiplier : {10},
    jitter_ms : {0},
    wait_ceiling_ms : {3000},
    sleep_ms : {1000},
    client : {"None", "supplied"} ]

InitRepeat ==
  /\ \E k \in {"backup", "restore"} : \E a \in RepeatArgSets :
       IsFrame(FreshFrame(k, a))
  /\ other = NoFrame
  /\ active = 1
  /\ callNo = 1
  /\ lro = NoLro

ProberAlreadyTerminal ==
  /\ callNo > 1
  /\ other.lastResult \in TerminalStates
  /\ other.resultLog[Len(other.resultLog)] = other.lastResult

WaitStep ==
  /\ Next
  /\ (pc = "probe" /\ ProberAlreadyTerminal) =>
       resultLog'[Len(resultLog')] = other.lastResult

(* A call that saw a terminal state has ended and the same wait function *)
(* is called again with the same arguments; the frame of the ended call  *)
(* is kept in other.                                                     *)
Again ==
  /\ pc = "done"
  /\ callNo < MaxCalls
  /\ lastResult \in TerminalStates
  /\ resultLog[Len(resultLog)] = lastResult
  /\ other' = Frame
  /\ Resume(FreshFrame(kind, args))
  /\ callNo' = callNo + 1
  /\ UNCHANGED <<active, lro>>

NextRepeat == WaitStep \/ Again

RepeatSpec == InitRepeat /\ [][NextRepeat]_vars

----------------------------------------------------------------------------
(* Two wait calls running concurrently, one per thread.  The variables   *)
(* hold the frame of the call whose thread is running, other the frame   *)
(* of the call whose thread is not; Switch hands the processor over.     *)
ConcArgSets ==
  [ max_wait_ms : {1000, 2000},
    exponential_sleep_multiplier : {10},
    jitter_ms : {0},
    wait_ceiling_ms : {3000},
    sleep_ms : {1000},
    client : {"supplied", "falsy"} ]

ConcResults == {"IN_PROGRESS", "SUCCEEDED", "HttpError"}

InitConc ==
  /\ \E a \in ConcArgSets : IsFrame(FreshFrame("backup", a))
  /\ \E k \in {"backup", "restore"} : \E a \in ConcArgSets :
       other = FreshFrame(k, a)
  /\ active = 1
  /\ callNo = 1
  /\ lro = NoLro

ConcStep ==
  /\ Next
  /\ cbFailed' = FALSE
  /\ pc = "probe" => resultLog'[Len(resultLog')] \in ConcResults

Switch ==
  /\ other' = Frame
  /\ Resume(other)
  /\ active' = 3 - active
  /\ UNCHANGED <<callNo, lro>>

NextConc == ConcStep \/ Switch

ConcSpec == InitConc /\ [][NextConc]_vars

----------------------------------------------------------------------------
(* CreateBackupAndWaitForLRO and CreateRestoreAndWaitForLRO.  A client   *)
(* is None, the caller's client (SuppliedClient) or the n-th instance    *)
(* made by GetClientInstance() (n >= 1).                                 *)
SuppliedClient == 0

OptionalArgs(k) ==
  IF k = "backup"
    THEN {"description", "labels", "retain_days", "delete_lock_days"}
    ELSE {"description", "labels", "volume_data_restore_policy_overrides",
          "restore_filter"}

(* The create request built by CreateBackup / CreateRestore: the fields  *)
(* always set, and one field per optional argument that was given.       *)
RequestOf(k, given) ==
  (IF k = "backup" THEN {"backupId", "parent"}
                   ELSE {"restoreId", "parent", "backup"}) \cup given

(* `if client is None: client = GetClientInstance()`: the client used    *)
(* and the number of instances made so far.                              *)
DefaultedClient(c, made) ==
  IF c = None THEN [client |-> made + 1, made |-> made + 1]
              ELSE [client |-> c, made |-> made]

(* Variant: client=client left out of the call of CreateBackup *)
ClientPassedToCreate_Dropped(c) == None

(* client=client in the call of CreateBackup / CreateRestore *)
ClientPassedToCreate(c) == c

LroErrors == {"HttpError"}

InitLro ==
  /\ IsFrame(FreshFrame("backup", CHOOSE a \in RepeatArgSets : TRUE))
  /\ other = NoFrame
  /\ active = 1
  /\ callNo = 1
  /\ \E k \in {"backup", "restore"} :
     \E c \in {None, SuppliedClient} :
     \E given \in SUBSET OptionalArgs(k) :
       lro = [ pc |-> "start", kind |-> k, clientArg |-> c, given |-> given,
               client |-> None, made |-> 0, request |-> {},
               createClient |-> None, pollClients |-> {},
               events |-> <<>>, outcome |-> NoOutcome ]

(* Lines 98-99 / 237-238: default the client *)
LroStart ==
  /\ lro.pc = "start"
  /\ LET d == DefaultedClient(lro.clientArg, lro.made) IN
       lro' = [lro EXCEPT !.pc = "create", !.client = d.client,
                          !.made = d.made]
  /\ UNCHANGED <<kind, args, client, retryer, pc, elapsed, lastResult,
                 probeLog, probeDurs, resultLog, sleepLog, callbacks,
                 cbFailed, completed, outcome, engineExit, other, active,
                 callNo>>

(* CreateBackup / CreateRestore: default the client it was passed, build *)
(* the request, issue Create.  A failure of Create leaves the whole call *)
(* with that error; otherwise the operation is parsed and logged and the *)
(* operation poller is built on the caller's client.                     *)
LroCreate ==
  /\ lro.pc = "create"
  /\ LET d == DefaultedClient(ClientPassedToCreate(lro.client), lro.made) IN
     \E r \in {"operation"} \cup LroErrors :
       lro' = [lro EXCEPT
                 !.made = d.made,
                 !.createClient = d.client,
                 !.request = RequestOf(lro.kind, lro.given),
                 !.events = Append(@, "create"),
                 !.pc = IF r \in LroErrors THEN "done" ELSE "wait",
                 !.outcome = IF r \in LroErrors
                               THEN [kind |-> "CreateError", value |-> r]
                               ELSE @]
  /\ UNCHANGED <<kind, args, client, retryer, pc, elapsed, lastResult,
                 probeLog, probeDurs, resultLog, sleepLog, callbacks,
                 cbFailed, completed, outcome, engineExit, other, active,
                 callNo>>

(* waiter.WaitFor: poll the operation through the poller's client until  *)
(* it is done, the poll fails or the waiter gives up.                    *)
LroPoll ==
  /\ lro.pc = "wait"
  /\ \E r \in {"running", "done", "timeout"} \cup LroErrors :
       /\ r = "running" => Len(lro.events) < MaxLroPolls
       /\ lro' = [lro EXCEPT
                    !.pollClients = @ \cup {lro.client},
                    !.events = Append(@, "poll"),
                    !.pc = IF r = "running" THEN "wait" ELSE "done",
                    !.outcome =
                      IF r = "running" THEN @
                      ELSE IF r = "done"
                        THEN [kind |-> "returned", value |-> "response"]
                      ELSE IF r = "timeout"
                        THEN [kind |-> "TimeoutError", value |-> r]
                      ELSE [kind |-> "PollError", value |-> r]]
  /\ UNCHANGED <<kind, args, client, retryer, pc, elapsed, lastResult,
                 probeLog, probeDurs, resultLog, sleepLog, callbacks,
                 cbFailed, completed, outcome, engineExit, other, active,
                 callNo>>

NextLro == LroStart \/ LroCreate \/ LroPoll

LroSpec == InitLro /\ [][NextLro]_vars

----------------------------------------------------------------------------
(* Derived history *)
Last(q) == q[Len(q)]
TimeoutKind == "WaitForCompletionTimeoutError"
RaisedErr ==
  IF Len(resultLog) > 0 /\ Last(resultLog) \in TransportErrors
    THEN Last(resultLog) ELSE "none"
TerminalSeen == lastResult \in TerminalStates
NonTerminalCount ==
  Cardinality({i \in 1..Len(resultLog) : resultLog[i] \in NonTerminalStates})
LastDelay == IF Len(sleepLog) = 0 THEN 0 ELSE Last(sleepLog)
LastProbeDur == IF Len(probeDurs) = 0 THEN 0 ELSE Last(probeDurs)
ProbeStartedLate(i) == probeLog[i] >= args.max_wait_ms

(* C1: once a probe has returned a terminal state (SUCCEEDED or FAILED), *)
(* the call performs no further probe and no further sleep.              *)
C1_NoProbeAfterTerminal ==
  [][TerminalSeen => (probeLog' = probeLog /\ sleepLog' = sleepLog
                      /\ lastResult' = lastResult)]_vars

C1_Witness ==
  /\ pc = "done" /\ TerminalSeen
  /\ Len(probeLog) >= 3 /\ Len(sleepLog) >= 2

C3_TransportErrorPropagates ==
  /\ [](RaisedErr # "none" =>
          /\ pc = "done"
          /\ outcome = [kind |-> "TransportError", value |-> RaisedErr])
  /\ [][RaisedErr # "none" => probeLog' = probeLog]_vars

C3_Witness ==
  /\ RaisedErr # "none" /\ pc = "done"
  /\ Len(probeLog) >= 2

C6_CountsOnReturn ==
  (pc = "done" /\ RaisedErr = "none" /\ TerminalSeen) =>
    /\ outcome = [kind |-> "returned", value |-> lastResult]
    /\ lastResult = Last(resultLog)
    /\ Len(probeLog) = NonTerminalCount + 1
    /\ Len(sleepLog) = NonTerminalCount
    /\ callbacks = NonTerminalCount + 1
    /\ (NonTerminalCount >= 1 => sleepLog[1] = args.sleep_ms)

C6_Witness ==
  /\ outcome.kind = "returned" /\ NonTerminalCount = 1
  /\ Len(sleepLog) = 1 /\ callbacks = 2

(* C7: a FAILED result is terminal and is handed back as a normal return *)
(* value; no timeout and no other error is raised for it.                *)
C7_FailedIsReturned ==
  lastResult = "FAILED" =>
    /\ pc \in {"callback", "decide", "done"}
    /\ pc = "done" => outcome = [kind |-> "returned", value |-> "FAILED"]

C7_Witness ==
  /\ pc = "done" /\ lastResult = "FAILED"
  /\ outcome.kind = "returned" /\ Len(probeLog) >= 2

(* C8: the timeout error is raised only with elapsed >= max_wait and a   *)
(* non-terminal last result; a terminal result is returned even when     *)
(* elapsed time has already reached max_wait.                            *)
C8_TimeoutOnlyWhenNonTerminal ==
  /\ outcome.kind = TimeoutKind =>
       (elapsed >= args.max_wait_ms /\ IsNotDone(lastResult))
  /\ (pc = "done" /\ TerminalSeen /\ RaisedErr = "none") =>
       outcome = [kind |-> "returned", value |-> lastResult]

C8_Witness ==
  /\ outcome.kind = "returned"
  /\ elapsed >= args.max_wait_ms /\ Len(sleepLog) >= 1

(* The scenario of C9: max_wait 5000, base_delay 1000, multiplier 1.0,   *)
(* no jitter, instantaneous probes, every result IN_PROGRESS.            *)
Scenario9 ==
  /\ args.max_wait_ms = 5000 /\ args.sleep_ms = 1000
  /\ args.exponential_sleep_multiplier = 10 /\ args.jitter_ms = 0
  /\ \A i \in 1..Len(probeDurs) : probeDurs[i] = 0
  /\ \A i \in 1..Len(resultLog) : resultLog[i] = "IN_PROGRESS"

C10_NoCallbackNoSleepOnError ==
  RaisedErr # "none" =>
    /\ callbacks = Len(probeLog) - 1
    /\ Len(sleepLog) = Len(probeLog) - 1
    /\ pc = "done"

C10_Witness ==
  /\ RaisedErr # "none" /\ Len(probeLog) = 3
  /\ callbacks = 2 /\ Len(sleepLog) = 2

(* Generated-backoff bounds of the n-th delay (n > 1), in tenths of a ms  *)
(* so that a multiplier such as 1.4 is compared exactly.                  *)
DelayWithinBounds(n) ==
  LET prev == sleepLog[n - 1] * args.exponential_sleep_multiplier
      ceil == 10 * args.wait_ceiling_ms IN
    /\ 10 * sleepLog[n] >= Min(prev, ceil)
    /\ 10 * sleepLog[n] <= Min(prev + 10 * args.jitter_ms, ceil)

CallState ==
  IF pc # "done" THEN "RUNNING"
  ELSE IF outcome.kind = "returned" THEN "SUCCEEDED"
  ELSE IF outcome.kind = TimeoutKind THEN "TIMED_OUT"
  ELSE IF outcome.kind = "TransportError" THEN "FAILED"
  ELSE "OTHER"

OnlyNonTerminalSoFar ==
  \A i \in 1..Len(resultLog) : resultLog[i] \in NonTerminalStates

(* C13: a call is RUNNING until it enters exactly one of SUCCEEDED       *)
(* (terminal result observed), TIMED_OUT (time exhausted) or FAILED      *)
(* (transport error); these are absorbing; and no count of retries ends  *)
(* a call: with only non-terminal results and elapsed below max_wait the *)
(* call is still RUNNING.                                                *)
C13_StateMachine ==
  /\ [](CallState \in {"RUNNING", "SUCCEEDED", "TIMED_OUT", "FAILED"})
  /\ [](CallState = "SUCCEEDED" => (TerminalSeen /\ RaisedErr = "none"))
  /\ [](CallState = "TIMED_OUT" =>
          (OnlyNonTerminalSoFar /\ elapsed >= args.max_wait_ms))
  /\ [](CallState = "FAILED" => RaisedErr # "none")
  /\ []((OnlyNonTerminalSoFar /\ elapsed < args.max_wait_ms) =>
          CallState = "RUNNING")
  /\ [][CallState # "RUNNING" =>
          (CallState' = CallState /\ outcome' = outcome)]_vars
  /\ [][(pc = "decide" /\ IsNotDone(lastResult)
         /\ elapsed < args.max_wait_ms) => pc' = "sleep"]_vars

C13_Witness ==
  /\ CallState = "RUNNING" /\ pc = "sleep"
  /\ Len(probeLog) >= 5 /\ OnlyNonTerminalSoFar

(* C14: a wait call with a finite max_wait terminates, whatever the      *)
(* prober does, given that every probe returns and every sleep advances  *)
(* the clock.                                                            *)
C14_Terminates == <>(pc = "done")

C14_Witness ==
  /\ pc = "done" /\ Len(probeLog) >= 3
  /\ outcome.kind = TimeoutKind

(* C15: the call raises WaitForCompletionTimeoutError exactly when       *)
(* RetryOnResult ended with WaitException; a transport error reaches the *)
(* caller as itself and a returned result as a return value, so the      *)
(* three ways to end are told apart by kind.                             *)
C15_TimeoutErrorIffWaitException ==
  /\ pc # "done" => (outcome = NoOutcome /\ engineExit = NoOutcome)
  /\ pc = "done" =>
       /\ (outcome.kind = TimeoutKind) = (engineExit.kind = "WaitException")
       /\ (outcome.kind = "returned") = (engineExit.kind = "return")
       /\ (outcome.kind = "TransportError")
            = (engineExit.kind = "TransportError")
       /\ engineExit.kind = "TransportError" => outcome = engineExit
       /\ engineExit.kind \in {"WaitException", "return", "TransportError"}

C15_Witness ==
  /\ pc = "done" /\ engineExit.kind = "WaitException"
  /\ outcome.kind = TimeoutKind /\ Len(probeLog) >= 2

(* C16: a wait call made when the prober is already terminal makes one   *)
(* probe and no sleep and returns that terminal result, the same result  *)
(* as the call before it; and every call starts from the same fresh      *)
(* frame, whatever the calls before it did.                              *)
C16_RepeatedCallsAgree ==
  /\ pc = "start" => Frame = FreshFrame(kind, args)
  /\ (ProberAlreadyTerminal /\ pc = "done") =>
       /\ outcome = [kind |-> "returned", value |-> other.lastResult]
       /\ Len(probeLog) = 1 /\ Len(sleepLog) = 0 /\ callbacks = 1
       /\ other.outcome.kind = "returned" => outcome = other.outcome

C16_Witness ==
  /\ callNo = 3 /\ pc = "done" /\ ProberAlreadyTerminal
  /\ other.outcome.kind = "returned" /\ Len(other.probeLog) = 1

(* The frame of call i of two concurrent calls *)
Call(i) == IF active = i THEN Frame ELSE other

(* What a call with arguments a does when it runs alone, without jitter, *)
(* against the probe results rs taking the times ds: replayed from probe *)
(* i on, with el elapsed and the delays sl slept so far.                 *)
RECURSIVE Alone(_, _, _, _, _, _)
Alone(a, rs, ds, i, el, sl) ==
  IF i > Len(rs)
    THEN [outcome |-> NoOutcome, elapsed |-> el, sleepLog |-> sl]
  ELSE
    LET now == el + ds[i]
        d == NextDelay(RetryerOf(a), a.sleep_ms, sl, 0)
        end(k, v) == [outcome |-> Translate([kind |-> k, value |-> v]),
                      elapsed |-> now, sleepLog |-> sl]
    IN IF rs[i] \in TransportErrors THEN end("TransportError", rs[i])
       ELSE IF ~IsNotDone(rs[i]) THEN end("return", rs[i])
       ELSE IF now >= a.max_wait_ms THEN end("WaitException", rs[i])
       ELSE IF i = Len(rs) /\ Len(sl) < i
         THEN [outcome |-> NoOutcome, elapsed |-> now, sleepLog |-> sl]
       ELSE Alone(a, rs, ds, i + 1, now + d, Append(sl, d))

AsAlone(f) ==
  LET solo == Alone(f.args, f.resultLog, f.probeDurs, 1, 0, <<>>) IN
    f.pc = "done" =>
      /\ f.outcome = solo.outcome
      /\ f.elapsed = solo.elapsed
      /\ f.sleepLog = solo.sleepLog

(* C17: of two concurrent wait calls, every step changes the frame of    *)
(* one call only, and each call ends as it would have ended running      *)
(* alone against the same probe results and probe times.                 *)
C17_ConcurrentCallsIndependent ==
  /\ [](AsAlone(Call(1)) /\ AsAlone(Call(2)))
  /\ [][Call(1)' = Call(1) \/ Call(2)' = Call(2)]_vars

C17_Witness ==
  /\ Call(1).pc = "done" /\ Call(2).pc = "done"
  /\ Call(1).args # Call(2).args
  /\ Call(1).outcome.kind = "returned" /\ Len(Call(1).sleepLog) >= 1
  /\ Call(2).outcome.kind = TimeoutKind

(* C18: the "completed" line is printed exactly once by a call that ends *)
(* with a returned result, after the last status-update callback, and    *)
(* the value returned is the last probe's result; a call that ends with  *)
(* the timeout error or a transport error never prints it.               *)
C18_CompletedLineOnceOnReturn ==
  /\ [](pc # "done" => completed = 0)
  /\ [](pc = "done" =>
          /\ outcome.kind = "returned" => completed = 1
          /\ outcome.kind # "returned" => completed = 0)
  /\ [](outcome.kind = "returned" =>
          (outcome.value = Last(resultLog) /\ callbacks = Len(probeLog)))
  /\ [][completed >= 1 =>
          (completed' = completed /\ callbacks' = callbacks)]_vars

C18_Witness ==
  /\ completed = 1 /\ callbacks >= 2
  /\ outcome.kind = "returned"

CreateCount ==
  Cardinality({i \in 1..Len(lro.events) : lro.events[i] = "create"})
PollCount ==
  Cardinality({i \in 1..Len(lro.events) : lro.events[i] = "poll"})

(* C19: Create...AndWaitForLRO issues the create request once and before *)
(* any poll of the operation; a failed create ends the call with its     *)
(* error and without a poll; the polls go through the client the create  *)
(* request went through.                                                 *)
C19_CreateOnceThenPoll ==
  /\ CreateCount <= 1
  /\ \A i \in 1..Len(lro.events) : (lro.events[i] = "create") = (i = 1)
  /\ lro.pc \in {"wait", "done"} => CreateCount = 1
  /\ lro.outcome.kind = "CreateError" => (lro.pc = "done" /\ PollCount = 0)
  /\ PollCount > 0 => lro.pollClients = {lro.createClient}
  /\ (CreateCount = 1 /\ lro.clientArg # None) =>
       lro.createClient = lro.clientArg
  /\ CreateCount = 1 =>
       (lro.createClient # None /\ lro.createClient = lro.client)

C19_Witness ==
  /\ lro.pc = "done" /\ PollCount >= 2 /\ lro.clientArg = None
  /\ lro.outcome.kind = "returned"

(* Two calls have been given the same arguments and the same probe       *)
(* results and probe times, and stand at the same position.              *)
SameInputs(f, g) ==
  /\ f.args = g.args
  /\ f.resultLog = g.resultLog /\ f.probeDurs = g.probeDurs
  /\ f.pc = g.pc

====
